---- MODULE Spec2Model ----
(***************************************************************************)
(* Model of VerificationBase (crypto/verification/Base): the per-          *)
(* transaction state machine of interactive device verification.           *)
(*                                                                         *)
(* The object's fields are the variables.  Every method is a pure          *)
(* operator from a snapshot of the object (a record, see Cur) to the       *)
(* snapshot after the call, so that a method that calls another one        *)
(* (handleEvent -> cancel -> _reject -> _endTimer) is modelled by the      *)
(* composition of their operators; an action applies one public call,      *)
(* timer callback or hook step to the variables.                           *)
(***************************************************************************)
EXTENDS Integers, Sequences, FiniteSets, TLC

(* ---------------------------------------------------------------------- *)
(* Bounds of the exploration                                                *)
(* ---------------------------------------------------------------------- *)

\* number of effective cancel() calls issued by the application
MaxCancels == 2

\* number of done() calls that reach request.onVerifierFinished()
MaxNotified == 1

\* number of entries of the `keys` object given to _verifyKeys
MaxKeys == 2

(* ---------------------------------------------------------------------- *)
(* Values                                                                   *)
(* ---------------------------------------------------------------------- *)

U == "undefined"

CANCEL == "m.key.verification.cancel"

DONE == "m.key.verification.done"

KEY == "m.key.verification.key"

MAC == "m.key.verification.mac"

START == "m.key.verification.start"

\* the local user (this._baseApis.getUserId())
MyUserId == "@alice"

OtherUserId == "@bob"

\* a || b on strings that are either undefined or non-empty
Or(a, b) == IF a = U THEN b ELSE a

\* a MatrixEvent: getType(), getSender() and the fields of getContent()
Event(type, sender, code, reason, body) ==
    [type |-> type, sender |-> sender, code |-> code, reason |-> reason, body |-> body]

NoEvent == Event(U, U, U, U, U)

\* a thrown value / cancellation cause: an Error (message), a
\* SwitchStartEventError (startEvent) or a MatrixEvent (event).  Strings
\* built by concatenation are sequences of their pieces.
Err(message) == [class |-> "Error", message |-> message, event |-> NoEvent]

NoCause == [class |-> "none", message |-> <<>>, event |-> NoEvent]

EventCause(ev) == [class |-> "MatrixEvent", message |-> <<>>, event |-> ev]

timeoutException == Err(<<"Verification timed out">>)

SwitchStartEventError(startEvent) ==
    [class |-> "SwitchStartEventError", message |-> <<>>, event |-> startEvent]

\* Error.prototype.toString(): "Error: " + message, or "Error" without one
toString(e) ==
    IF e.class = "MatrixEvent" THEN <<"[object Object]">>
    ELSE IF e.message = <<>> THEN <<"Error">>
    ELSE <<"Error: ">> \o e.message

\* the error built by handleEvent for a remote cancellation
OtherSideCancelled(reason, code) ==
    Err(<<"Other side cancelled verification because ", reason, " (", code, ")">>)

\* the error built by handleEvent for a protocol violation
UnexpectedMessage(expected, got) ==
    Err(<<"Unexpected message: expecting ", expected, " but got ", got>>)

\* newTimeoutError(): the cancellation event announcing a timeout
newTimeoutError == Event(CANCEL, U, "m.timeout", "Timed out", U)

\* an outbound message handed to this._channel.send
Msg(type, code, reason) == [type |-> type, code |-> code, reason |-> reason]

(* ---------------------------------------------------------------------- *)
(* Inputs                                                                   *)
(* ---------------------------------------------------------------------- *)

\* event types the verification method waits for
WaitTypes == {KEY, DONE, CANCEL}

\* events the channel delivers to handleEvent
InboundEvents ==
    { Event(KEY, OtherUserId, U, U, U),
      Event(MAC, OtherUserId, U, U, U),
      Event(DONE, OtherUserId, U, U, U),
      Event(CANCEL, OtherUserId, "m.user", "rejected", U) }

\* MatrixEvents passed to cancel() as the cause
CauseEvents ==
    { Event(CANCEL, OtherUserId, "m.user", "rejected", U),
      Event(CANCEL, "@carol", U, U, "body text"),
      Event(KEY, "@carol", U, U, U) }

\* causes the application or the verification method pass to cancel()
AppCauses == {Err(<<"User cancelled">>)} \cup {EventCause(ev) : ev \in CauseEvents}

\* start events handed to the constructor and to switchStartEvent
StartEvent0 == Event(START, OtherUserId, U, U, U)

StartEvent1 == Event(START, MyUserId, U, U, U)

\* (userId, deviceId) handed to the constructor: the other user's device,
\* a device of the local user, and a device that is not known yet
Identities == {<<OtherUserId, "DEVICE">>, <<MyUserId, "DEVICE">>, <<OtherUserId, U>>}

(* ---------------------------------------------------------------------- *)
(* State                                                                    *)
(* ---------------------------------------------------------------------- *)

VARIABLES
    userId,        \* this.userId (or undefined)
    deviceId,      \* this.deviceId (or undefined)
    hasHook,       \* whether the subclass defines _doVerification
    startEvent,    \* this.startEvent
    cancelled,     \* this.cancelled
    done,          \* this._done
    started,       \* this._started
    promise,       \* this._promise: 0 is null, n > 0 the n-th promise object
    promiseState,  \* state of the promise this._promise refers to
    promiseValue,  \* the cause it was rejected with
    resolveFn,     \* this._resolve is defined
    rejectFn,      \* this._reject is defined
    timer,         \* this._transactionTimeoutTimer: null, armed, or fired
    expectedEvent, \* this._expectedEvent
    resolveEvent,  \* this._resolveEvent is defined (it settles `waiter`)
    rejectEvent,   \* this._rejectEvent is defined (it settles `waiter`)
    waiter,        \* the promise the last _waitForEvent created
    sent,          \* messages handed to this._channel.send
    emitted,       \* number of 'cancel' notifications emitted
    notified,      \* number of request.onVerifierFinished() calls
    resolveCalls,  \* invocations of the verify() promise's resolve
    rejectCalls,   \* invocations of the verify() promise's reject
    keyFetch,      \* the cross-signing key request started by done()
    hook,          \* position of _doVerification
    hookRuns,      \* number of times _doVerification was called
    verifyArms,    \* number of times verify() armed the timer
    returned,      \* the promise objects verify() has returned
    last,          \* the last call and how it went
    keys,          \* _verifyKeys: Object.entries(keys), with what verifier does
    crossSigningId,\* _verifyKeys: getStoredCrossSigningForUser(userId).getId()
    batch          \* _verifyKeys: position in the loops, verifiedDevices,
                   \* the setDeviceVerified calls made, and the outcome

objVars ==
    <<userId, deviceId, hasHook, startEvent, cancelled, done, started, promise,
      promiseState, promiseValue, resolveFn, rejectFn, timer, expectedEvent,
      resolveEvent, rejectEvent, waiter, sent, emitted, notified, resolveCalls,
      rejectCalls, keyFetch, hook, hookRuns, verifyArms>>

keysVars == <<keys, crossSigningId, batch>>

vars == <<objVars, returned, last, keysVars>>

\* the object and its collaborators as one value
Cur ==
    [userId |-> userId, deviceId |-> deviceId, hasHook |-> hasHook,
     startEvent |-> startEvent, cancelled |-> cancelled, done |-> done,
     started |-> started, promise |-> promise, promiseState |-> promiseState,
     promiseValue |-> promiseValue, resolveFn |-> resolveFn, rejectFn |-> rejectFn,
     timer |-> timer, expectedEvent |-> expectedEvent, resolveEvent |-> resolveEvent,
     rejectEvent |-> rejectEvent, waiter |-> waiter, sent |-> sent,
     emitted |-> emitted, notified |-> notified, resolveCalls |-> resolveCalls,
     rejectCalls |-> rejectCalls, keyFetch |-> keyFetch, hook |-> hook,
     hookRuns |-> hookRuns, verifyArms |-> verifyArms, failed |-> FALSE]

\* the variables take the values of snapshot s
Becomes(s) ==
    /\ userId' = s.userId
    /\ deviceId' = s.deviceId
    /\ hasHook' = s.hasHook
    /\ startEvent' = s.startEvent
    /\ cancelled' = s.cancelled
    /\ done' = s.done
    /\ started' = s.started
    /\ promise' = s.promise
    /\ promiseState' = s.promiseState
    /\ promiseValue' = s.promiseValue
    /\ resolveFn' = s.resolveFn
    /\ rejectFn' = s.rejectFn
    /\ timer' = s.timer
    /\ expectedEvent' = s.expectedEvent
    /\ resolveEvent' = s.resolveEvent
    /\ rejectEvent' = s.rejectEvent
    /\ waiter' = s.waiter
    /\ sent' = s.sent
    /\ emitted' = s.emitted
    /\ notified' = s.notified
    /\ resolveCalls' = s.resolveCalls
    /\ rejectCalls' = s.rejectCalls
    /\ keyFetch' = s.keyFetch
    /\ hook' = s.hook
    /\ hookRuns' = s.hookRuns
    /\ verifyArms' = s.verifyArms
    /\ UNCHANGED keysVars

\* what `last` records of a call: its name, the type of the event it was
\* given (for switchStartEvent, what canSwitchStartEvent answered), whether the transaction was terminal when it was made, and
\* whether it failed (it threw, or the promise it returned is rejected)
Call(op, arg, s, t) ==
    [op |-> op, arg |-> arg, terminal |-> (s.done \/ s.cancelled), failed |-> t.failed]

\* no _verifyKeys call is under way
NoBatch == [pos |-> 0, verifiedDevices |-> <<>>, marked |-> <<>>, result |-> "idle"]

\* the transaction after construction
NewTransaction ==
    /\ \E id \in Identities : userId = id[1] /\ deviceId = id[2]
    /\ hasHook \in BOOLEAN
    /\ startEvent = StartEvent0
    /\ cancelled = FALSE
    /\ done = FALSE
    /\ started = FALSE
    /\ promise = 0
    /\ promiseState = "none"
    /\ promiseValue = NoCause
    /\ resolveFn = FALSE
    /\ rejectFn = FALSE
    /\ timer = "null"
    /\ expectedEvent = U
    /\ resolveEvent = FALSE
    /\ rejectEvent = FALSE
    /\ waiter = [state |-> "none", event |-> NoEvent, error |-> NoCause]
    /\ sent = <<>>
    /\ emitted = 0
    /\ notified = 0
    /\ resolveCalls = 0
    /\ rejectCalls = 0
    /\ keyFetch = "none"
    /\ hook = "idle"
    /\ hookRuns = 0
    /\ verifyArms = 0
    /\ returned = {}
    /\ last = [op |-> "new", arg |-> U, terminal |-> FALSE, failed |-> FALSE]

Init ==
    /\ NewTransaction
    /\ keys = <<>>
    /\ crossSigningId = U
    /\ batch = NoBatch

(* ---------------------------------------------------------------------- *)
(* Promises                                                                 *)
(* ---------------------------------------------------------------------- *)

\* a promise created by _waitForEvent
Waiter(state, event, error) == [state |-> state, event |-> event, error |-> error]

\* calling this._resolveEvent with event e; calling undefined throws,
\* settling a settled promise does nothing
ResolveWaiter(s, e) ==
    IF ~s.resolveEvent THEN [s EXCEPT !.failed = TRUE]
    ELSE IF s.waiter.state # "pending" THEN s
    ELSE [s EXCEPT !.waiter = Waiter("resolved", e, NoCause)]

\* calling the reject function of the waiter with error x
RejectWaiter(s, x) ==
    IF s.waiter.state # "pending" THEN s
    ELSE [s EXCEPT !.waiter = Waiter("rejected", NoEvent, x)]

\* the resolve function of the promise created by verify()
PromiseResolve(s) ==
    [s EXCEPT !.resolveCalls = @ + 1,
              !.promiseState = IF @ = "pending" THEN "resolved" ELSE @]

\* the reject function of the promise created by verify()
PromiseReject(s, x) ==
    [s EXCEPT !.rejectCalls = @ + 1,
              !.promiseState = IF @ = "pending" THEN "rejected" ELSE @,
              !.promiseValue = IF s.promiseState = "pending" THEN x ELSE @]

(* ---------------------------------------------------------------------- *)
(* Methods of VerificationBase                                              *)
(* ---------------------------------------------------------------------- *)

\* _resetTimer that clears the old timeout and sets no new one
resetTimerNotArmed(s) == [s EXCEPT !.timer = "null"]

resetTimer(s) == [s EXCEPT !.timer = "armed"]

\* _endTimer that leaves the timeout running
endTimerKept(s) == s

endTimer(s) == [s EXCEPT !.timer = "null"]

send(s, type, code, reason) == [s EXCEPT !.sent = Append(@, Msg(type, code, reason))]

\* this._resolve, the wrapper installed by verify()
Resolve(s) == PromiseResolve(endTimer([s EXCEPT !.done = TRUE]))

\* this._reject that forgets to set _done
RejectNotDone(s, x) == PromiseReject(endTimer(s), x)

\* this._reject, the wrapper installed by verify()
Reject(s, x) == PromiseReject(endTimer([s EXCEPT !.done = TRUE]), x)

\* on a done transaction the promise returned is a rejected one, which is
\* not kept: the call has failed
waitForEvent(s, type) ==
    IF s.done
    THEN [s EXCEPT !.failed = TRUE]
    ELSE [s EXCEPT !.expectedEvent = type,
                   !.waiter = Waiter("pending", NoEvent, NoCause),
                   !.resolveEvent = TRUE,
                   !.rejectEvent = TRUE]

\* a switch that replaces startEvent under a live waiter too
doSwitchReplacing(s, event) ==
    IF s.rejectEvent
    THEN RejectWaiter([s EXCEPT !.rejectEvent = FALSE, !.startEvent = event],
                      SwitchStartEventError(event))
    ELSE [s EXCEPT !.startEvent = event]

\* switchStartEvent once canSwitchStartEvent(event) has allowed it
doSwitch(s, event) ==
    IF s.rejectEvent
    THEN RejectWaiter([s EXCEPT !.rejectEvent = FALSE], SwitchStartEventError(event))
    ELSE [s EXCEPT !.startEvent = event]

\* switchStartEvent that does not ask canSwitchStartEvent
switchStartEventUnasked(s, event, can) == doSwitch(s, event)

\* canSwitchStartEvent(event) is the subclass's answer, `can`
switchStartEvent(s, event, can) == IF ~can THEN s ELSE doSwitch(s, event)

\* the content cancel() leaves in a cancellation event it forwards
Forwarded(ev) ==
    [ev EXCEPT !.code = Or(ev.code, "m.unknown"),
               !.reason = Or(ev.reason, Or(ev.body, "Unknown reason"))]

\* the cause as cancel() leaves it: the content of a forwarded cancellation
\* event is completed in place
CauseAfterSend(s, x) ==
    IF /\ s.userId # U /\ s.deviceId # U
       /\ x # timeoutException /\ x.class = "MatrixEvent"
       /\ x.event.sender # s.userId /\ x.event.type = CANCEL
    THEN EventCause(Forwarded(x.event))
    ELSE x

\* cancel() without the branch for the timeout sentinel
sendCancelNoTimeout(s, x) ==
    IF s.userId = U \/ s.deviceId = U THEN s
    ELSE IF x.class = "MatrixEvent"
    THEN IF x.event.sender = s.userId THEN s
         ELSE IF x.event.type = CANCEL
         THEN send(s, CANCEL, Forwarded(x.event).code, <<Forwarded(x.event).reason>>)
         ELSE send(s, CANCEL, "m.unknown", <<Or(x.event.body, "Unknown reason")>>)
    ELSE send(s, CANCEL, "m.unknown", toString(x))

\* the part of cancel() that tells the other party
sendCancel(s, x) ==
    IF s.userId = U \/ s.deviceId = U THEN s
    ELSE IF x = timeoutException
    THEN send(s, newTimeoutError.type, newTimeoutError.code, <<newTimeoutError.reason>>)
    ELSE IF x.class = "MatrixEvent"
    THEN IF x.event.sender = s.userId THEN s
         ELSE IF x.event.type = CANCEL
         THEN send(s, CANCEL, Forwarded(x.event).code, <<Forwarded(x.event).reason>>)
         ELSE send(s, CANCEL, "m.unknown", <<Or(x.event.body, "Unknown reason")>>)
    ELSE send(s, CANCEL, "m.unknown", toString(x))

\* cancel() that leaves no promise behind when verify() was not called
rejectPromiseOnlyIfAny(s, x) ==
    IF s.promise # 0
    THEN IF s.rejectFn THEN Reject(s, x) ELSE s
    ELSE s

\* the part of cancel() that settles the verify() promise
rejectPromise(s, x) ==
    IF s.promise # 0
    THEN IF s.rejectFn THEN Reject(s, x) ELSE s
    ELSE [s EXCEPT !.promise = @ + 1, !.promiseState = "rejected", !.promiseValue = x]

\* what cancel() does when the transaction is not done
doCancel(s, x) ==
    LET s1 == [endTimer(s) EXCEPT !.cancelled = TRUE]
        s2 == sendCancel(s1, x)
        s3 == rejectPromise(s2, CauseAfterSend(s1, x))
    IN [s3 EXCEPT !.emitted = @ + 1]

\* cancel() without the check of _done
cancelUnguarded(s, x) == doCancel(s, x)

cancel(s, x) == IF s.done THEN endTimer(s) ELSE doCancel(s, x)

\* the callback _resetTimer hands to setTimeout
timerCallback(s) ==
    LET s1 == [s EXCEPT !.timer = "fired"]
    IN IF ~s1.done /\ ~s1.cancelled THEN cancel(s1, timeoutException) ELSE s1

\* a matched branch that treats m.key.verification.done like any other type
matchedAnyType(s, e) ==
    ResolveWaiter(resetTimer([s EXCEPT !.expectedEvent = U, !.rejectEvent = FALSE]), e)

\* handleEvent, the event is of the expected type
matched(s, e) ==
    IF s.expectedEvent # DONE
    THEN ResolveWaiter(resetTimer([s EXCEPT !.expectedEvent = U, !.rejectEvent = FALSE]), e)
    ELSE s

\* the other side's cancellation answered by a cancellation of our own
remoteCancelEchoed(s, e) == cancel(s, OtherSideCancelled(e.reason, e.code))

\* a remote cancellation that rejects without looking for this._reject
remoteCancelUnchecked(s, e) ==
    Reject([s EXCEPT !.rejectFn = FALSE], OtherSideCancelled(e.reason, e.code))

\* handleEvent, the event is the other side's cancellation
remoteCancel(s, e) ==
    IF s.rejectFn
    THEN Reject([s EXCEPT !.rejectFn = FALSE], OtherSideCancelled(e.reason, e.code))
    ELSE s

\* a protocol violation that cancels but leaves the waiter pending
unexpectedKeepsWaiter(s, e) ==
    cancel([s EXCEPT !.expectedEvent = U], UnexpectedMessage(s.expectedEvent, e.type))

\* handleEvent, an event of another type while one is expected
unexpected(s, e) ==
    LET exception == UnexpectedMessage(s.expectedEvent, e.type)
        s1 == [s EXCEPT !.expectedEvent = U]
        s2 == IF s1.rejectEvent
              THEN RejectWaiter([s1 EXCEPT !.rejectEvent = FALSE], exception)
              ELSE s1
    IN cancel(s2, exception)

\* handleEvent on a transaction that is not done
route(s, e) ==
    IF e.type = s.expectedEvent THEN matched(s, e)
    ELSE IF e.type = CANCEL THEN remoteCancel(s, e)
    ELSE IF s.expectedEvent # U THEN unexpected(s, e)
    ELSE s

\* handleEvent without the check of _done
handleEventUnguarded(s, e) == route(s, e)

handleEvent(s, e) == IF s.done THEN s ELSE route(s, e)

\* the cross-signing key request of done(), for a self-verification
requestKeys(s) ==
    IF MyUserId # s.userId THEN s ELSE [s EXCEPT !.keyFetch = "racing"]

doneOp(s) ==
    IF s.done THEN endTimer(s)
    ELSE LET s1 == [endTimer(s) EXCEPT !.notified = @ + 1]
         IN IF ~s1.resolveFn THEN [s1 EXCEPT !.failed = TRUE]
            ELSE requestKeys(Resolve(s1))

\* the first call of verify(): the promise, then the hook
startVerification(s) ==
    LET s1 == [s EXCEPT !.promise = @ + 1, !.promiseState = "pending",
                        !.promiseValue = NoCause,
                        !.resolveFn = TRUE, !.rejectFn = TRUE]
    IN IF s1.hasHook /\ ~s1.started
       THEN [resetTimer(s1) EXCEPT !.started = TRUE, !.verifyArms = @ + 1,
                                   !.hookRuns = @ + 1, !.hook = "running"]
       ELSE s1

\* verify() that makes a new promise on every call
verifyAgain(s) == startVerification(s)

verify(s) == IF s.promise # 0 THEN s ELSE startVerification(s)

\* the continuation of _doVerification runs once the promise it awaits,
\* the one _waitForEvent returned, is settled
resume(s) ==
    IF s.hook = "waiting" /\ s.waiter.state # "pending"
    THEN [s EXCEPT !.hook = "running"]
    ELSE s

\* what _doVerification can fail with: a cause of its own, or the error the
\* promise it awaited was rejected with
HookCauses ==
    AppCauses \cup (IF waiter.state = "rejected" THEN {waiter.error} ELSE {})

(* ---------------------------------------------------------------------- *)
(* Actions                                                                  *)
(* ---------------------------------------------------------------------- *)

\* the application calls verify()
Verify ==
    LET t == resume(verify(Cur))
    IN /\ Becomes(t)
       /\ returned' = returned \cup {t.promise}
       /\ last' = Call("verify", U, Cur, t)

\* the application calls cancel(x)
Cancel(x) ==
    LET t == resume(cancel(Cur, x))
    IN /\ done \/ emitted < MaxCancels
       /\ Becomes(t)
       /\ last' = Call("cancel", U, Cur, t)
       /\ UNCHANGED returned

\* the application calls done()
Done ==
    LET t == resume(doneOp(Cur))
    IN /\ done \/ notified < MaxNotified
       /\ Becomes(t)
       /\ last' = Call("done", U, Cur, t)
       /\ UNCHANGED returned

\* the channel delivers event e
HandleEvent(e) ==
    LET t == resume(handleEvent(Cur, e))
    IN /\ Becomes(t)
       /\ last' = Call("handleEvent", e.type, Cur, t)
       /\ UNCHANGED returned

\* the transport hands over another start event
SwitchStartEvent(event, can) ==
    LET t == resume(switchStartEvent(Cur, event, can))
    IN /\ Becomes(t)
       /\ last' = Call("switchStartEvent", IF can THEN "can switch" ELSE "cannot switch", Cur, t)
       /\ UNCHANGED returned

\* the transaction timeout elapses
TimerFire ==
    LET t == resume(timerCallback(Cur))
    IN /\ timer = "armed"
       /\ Becomes(t)
       /\ last' = Call("timer", U, Cur, t)
       /\ UNCHANGED returned

\* _doVerification calls _waitForEvent(type) and awaits the result
HookWaitForEvent(type) ==
    LET w == waitForEvent(Cur, type)
        t == IF w.failed THEN w ELSE [w EXCEPT !.hook = "waiting"]
    IN /\ hook = "running"
       /\ Becomes(t)
       /\ last' = Call("waitForEvent", type, Cur, t)
       /\ UNCHANGED returned

\* _doVerification returns: verify() chained done() to it
HookReturn ==
    LET t == doneOp([Cur EXCEPT !.hook = "ended"])
    IN /\ hook = "running"
       /\ Becomes(t)
       /\ last' = Call("hookReturn", U, Cur, t)
       /\ UNCHANGED returned

\* _doVerification fails with x: verify() chained cancel() to it
HookThrow(x) ==
    LET t == cancel([Cur EXCEPT !.hook = "ended"], x)
    IN /\ hook = "running"
       /\ x \in HookCauses
       /\ Becomes(t)
       /\ last' = Call("hookThrow", U, Cur, t)
       /\ UNCHANGED returned

\* the race of the key request against its timeout ends; the outcome is
\* only logged
KeyFetchSettle ==
    /\ keyFetch = "racing"
    /\ Becomes([Cur EXCEPT !.keyFetch = "settled"])
    /\ last' = Call("keyFetch", U, Cur, Cur)
    /\ UNCHANGED returned

Next ==
    \/ Verify
    \/ \E x \in AppCauses : Cancel(x)
    \/ Done
    \/ \E e \in InboundEvents : HandleEvent(e)
    \/ \E event \in {StartEvent1}, can \in BOOLEAN : SwitchStartEvent(event, can)
    \/ TimerFire
    \/ \E type \in WaitTypes : HookWaitForEvent(type)
    \/ HookReturn
    \/ \E x \in AppCauses \cup {UnexpectedMessage(a, b) : a \in WaitTypes, b \in {KEY, MAC, DONE}}
                 \cup {SwitchStartEventError(StartEvent1)} : HookThrow(x)
    \/ KeyFetchSettle

Spec == Init /\ [][Next]_vars

\* the timer is the one autonomous trigger: an armed timeout elapses
LiveSpec == Spec /\ WF_vars(TimerFire)

\* _waitForEvent(type) called on a transaction that is done or cancelled,
\* by code other than a running _doVerification, while no earlier waiter is
\* pending
WaitForEvent(type) ==
    LET t == waitForEvent(Cur, type)
    IN /\ done \/ cancelled
       /\ hook \notin {"running", "waiting"}
       /\ waiter.state # "pending"
       /\ done \/ emitted < MaxCancels
       /\ Becomes(t)
       /\ last' = Call("waitForEvent", type, Cur, t)
       /\ UNCHANGED returned

MethodNext ==
    \/ Next
    \/ \E type \in WaitTypes : WaitForEvent(type)

\* the transaction with _waitForEvent open to every caller, as the class
\* leaves it
MethodSpec == Init /\ [][MethodNext]_vars

(* ---------------------------------------------------------------------- *)
(* _verifyKeys                                                              *)
(* ---------------------------------------------------------------------- *)

\* devices this._baseApis.getStoredDevice(userId, deviceId) finds
StoredDevices == {"DEV1", "DEV2"}

\* key ids, as the pieces a ":" separates: of a stored device, of the same
\* device with a ":" in what follows, of the cross-signing identity, of an
\* unknown device, and one without ":"
KeyIds ==
    { <<"ed25519", "DEV1">>, <<"ed25519", "DEV1", "x">>, <<"ed25519", "MSK">>,
      <<"ed25519", "DEV9">>, <<"ed25519">> }

\* an entry of `keys` and whether verifier(keyId, device, keyInfo) succeeds
KeyEntries == [id : KeyIds, ok : BOOLEAN]

\* sequences of at most n entries with different key ids
RECURSIVE Batches(_)
Batches(n) ==
    IF n = 0 THEN {<<>>}
    ELSE LET shorter == Batches(n - 1)
         IN shorter \cup
            { Append(b, k) : b \in {c \in shorter : Len(c) = n - 1},
                             k \in KeyEntries }

DistinctIds(b) == \A i, j \in 1..Len(b) : i # j => b[i].id # b[j].id

\* keyId.split(':', 2)[1]
deviceIdOf(keyId) == IF Len(keyId) >= 2 THEN keyId[2] ELSE U

\* the key is that of a stored device, or else of the user's stored
\* cross-signing identity: verifier is called for it
Resolves(keyId, cs) ==
    \/ deviceIdOf(keyId) \in StoredDevices
    \/ cs # U /\ cs = deviceIdOf(keyId)

\* the loop body that takes any key for a known one
verifyKeyAny(b, k, cs) ==
    IF ~k.ok THEN [b EXCEPT !.result = "verifier failed"]
    ELSE [b EXCEPT !.pos = @ + 1,
                   !.verifiedDevices = Append(@, deviceIdOf(k.id))]

\* one iteration of the loop over Object.entries(keys)
verifyKey(b, k, cs) ==
    IF Resolves(k.id, cs)
    THEN IF ~k.ok THEN [b EXCEPT !.result = "verifier failed"]
         ELSE [b EXCEPT !.pos = @ + 1,
                        !.verifiedDevices = Append(@, deviceIdOf(k.id))]
    ELSE [b EXCEPT !.pos = @ + 1]

\* after the loop: nothing verified is an error
afterLoop(b) ==
    IF Len(b.verifiedDevices) = 0
    THEN [b EXCEPT !.result = "No devices could be verified"]
    ELSE [b EXCEPT !.result = "marking", !.pos = 1]

\* one iteration of the loop of setDeviceVerified calls
markDevice(b) ==
    LET b1 == [b EXCEPT !.marked = Append(@, b.verifiedDevices[b.pos]), !.pos = @ + 1]
    IN IF b1.pos > Len(b1.verifiedDevices) THEN [b1 EXCEPT !.result = "resolved"] ELSE b1

\* _verifyKeys(userId, keys, verifier) is called
KeysInit ==
    /\ NewTransaction
    /\ keys \in {b \in Batches(MaxKeys) : DistinctIds(b)}
    /\ crossSigningId \in {U, "MSK"}
    /\ batch = [NoBatch EXCEPT !.pos = 1, !.result = "checking"]

VerifyKey ==
    /\ batch.result = "checking"
    /\ batch.pos <= Len(keys)
    /\ batch' = verifyKey(batch, keys[batch.pos], crossSigningId)
    /\ UNCHANGED <<objVars, returned, last, keys, crossSigningId>>

AfterLoop ==
    /\ batch.result = "checking"
    /\ batch.pos > Len(keys)
    /\ batch' = afterLoop(batch)
    /\ UNCHANGED <<objVars, returned, last, keys, crossSigningId>>

MarkDevice ==
    /\ batch.result = "marking"
    /\ batch' = markDevice(batch)
    /\ UNCHANGED <<objVars, returned, last, keys, crossSigningId>>

KeysNext ==
    \/ VerifyKey
    \/ AfterLoop
    \/ MarkDevice

KeysSpec == KeysInit /\ [][KeysNext]_vars

(* ---------------------------------------------------------------------- *)
(* Properties                                                               *)
(* ---------------------------------------------------------------------- *)

Terminal == done \/ cancelled

Settled == promiseState \in {"resolved", "rejected"}

IdsKnown == userId # U /\ deviceId # U

\* C1: whatever the interleaving of verify(), done(), cancel(), timer
\* firings and handleEvent(), the resolve and reject functions of the
\* verify() promise are invoked at most once in total.
C1_SettledAtMostOnce == resolveCalls + rejectCalls <= 1

\* a done() call on a transaction that cancel() had already rejected
C1_Witness ==
    /\ rejectCalls = 1
    /\ cancelled
    /\ last.op = "done"
    /\ last.terminal

\* C2 (as claimed): over any sequence of cancel() calls the cancellation
\* message is sent at most once and 'cancel' is emitted at most once.
C2_CancelledAtMostOnce == Len(sent) <= 1 /\ emitted <= 1

\* C3 (as claimed): the cancelled flag and the _done flag are never both true.
C3_FlagsExclusive == ~(cancelled /\ done)

\* C3 (amended): _done marks any settlement of the verify() promise, it
\* holds exactly when the promise's resolve or reject was invoked; what is
\* exclusive is the outcome: a cancelled transaction is never resolved.
C3_OutcomeExclusive ==
    /\ done <=> (resolveCalls + rejectCalls >= 1)
    /\ cancelled => (resolveCalls = 0 /\ promiseState # "resolved")
    /\ promiseState = "resolved" => (done /\ ~cancelled)

\* a started transaction that was cancelled: both flags are set
C3_Witness == cancelled /\ done /\ promiseState = "rejected" /\ last.op = "cancel"

\* C4: every verify() call returns the same promise, _doVerification is
\* executed at most once and verify() arms the timer at most once.
C4_VerifyIdempotent ==
    /\ Cardinality(returned) <= 1
    /\ returned \subseteq {promise}
    /\ hookRuns <= 1
    /\ verifyArms <= 1

\* verify() called again after the first call's promise was resolved
C4_Witness ==
    /\ last.op = "verify"
    /\ last.terminal
    /\ resolveCalls = 1
    /\ hookRuns = 1
    /\ returned = {1}

\* C5: handleEvent() on a terminal transaction (done or cancelled) changes
\* nothing, and no handleEvent() call resolves more than one waiter.
C5_TerminalHandleEventNoOp ==
    [][ last'.op = "handleEvent" =>
          /\ Terminal => UNCHANGED objVars
          /\ waiter'.state = "resolved" =>
                \/ waiter' = waiter
                \/ /\ waiter.state = "pending"
                   /\ expectedEvent = last'.arg
                   /\ waiter'.event.type = last'.arg
      ]_vars

\* an event delivered to a transaction cancelled before verify() was called
C5_Witness ==
    /\ last.op = "handleEvent"
    /\ last.terminal
    /\ cancelled
    /\ ~done

\* the pieces the message of error x is made of
Pieces(x) == {x.message[i] : i \in 1..Len(x.message)}

\* the verify() promise was rejected because the other side cancelled
RemotelyCancelled ==
    /\ promiseState = "rejected"
    /\ promiseValue.message # <<>>
    /\ promiseValue.message[1] = "Other side cancelled verification because "

\* C6: a remote cancellation that arrives while verify() is pending and is
\* not the expected event rejects the verify() promise with an error that
\* embeds the remote reason and code and makes the transaction terminal;
\* no cancellation is sent, at that step or at any later one.
C6_RemoteCancelNoEcho ==
    /\ [][ (/\ last'.op = "handleEvent"
            /\ last'.arg = CANCEL
            /\ promiseState = "pending"
            /\ expectedEvent # CANCEL)
           => /\ promiseState' = "rejected"
              /\ promiseValue'.class = "Error"
              /\ {"rejected", "m.user"} \subseteq Pieces(promiseValue')
              /\ done'
              /\ sent' = sent
              /\ emitted' = emitted ]_vars
    /\ [](RemotelyCancelled => (done /\ sent = <<>>))

\* cancel() called after the other side cancelled: nothing was sent
C6_Witness ==
    /\ RemotelyCancelled
    /\ last.op = "cancel"
    /\ last.terminal
    /\ sent = <<>>

\* handleEvent is being given an event that is neither expected nor a
\* cancellation while an event is expected
ProtocolViolationStep ==
    /\ last'.op = "handleEvent"
    /\ ~done
    /\ expectedEvent # U
    /\ last'.arg # expectedEvent
    /\ last'.arg # CANCEL

\* what a protocol violation leaves apart from the message sent
ViolationOutcome ==
    LET exception == UnexpectedMessage(expectedEvent, last'.arg)
    IN /\ expectedEvent' = U
       /\ waiter.state = "pending" => waiter' = Waiter("rejected", NoEvent, exception)
       /\ cancelled'
       /\ done'
       /\ promiseState' = "rejected"
       /\ promiseValue' = exception

\* C7 (as claimed): an unexpected event while an event is expected clears
\* the expectation, rejects the waiter with an 'unexpected message' error,
\* sends exactly one cancellation with code m.unknown, cancels the
\* transaction and rejects the verify() promise with that error.
C7_ViolationCancels ==
    [][ ProtocolViolationStep =>
          /\ ViolationOutcome
          /\ Len(sent') = 1
          /\ sent'[1].type = CANCEL
          /\ sent'[1].code = "m.unknown" ]_vars

\* C7 (amended): as claimed, but the one m.unknown cancellation is sent
\* when both the user id and the device id of the other party are set;
\* without one of them nothing is sent.
C7_ViolationCancelsIfIdsKnown ==
    [][ ProtocolViolationStep =>
          /\ ViolationOutcome
          /\ sent' = IF IdsKnown
                     THEN <<Msg(CANCEL, "m.unknown",
                                toString(UnexpectedMessage(expectedEvent, last'.arg)))>>
                     ELSE <<>> ]_vars

\* a m.key.verification.mac event arrived while a key event was awaited
C7_Witness ==
    /\ last.op = "handleEvent"
    /\ last.arg = MAC
    /\ cancelled
    /\ promiseValue = UnexpectedMessage(KEY, MAC)
    /\ Len(sent) = 1
    /\ waiter = Waiter("rejected", NoEvent, UnexpectedMessage(KEY, MAC))

\* everything but the timer
allButTimer ==
    <<userId, deviceId, hasHook, startEvent, cancelled, done, started, promise,
      promiseState, promiseValue, resolveFn, rejectFn, expectedEvent,
      resolveEvent, rejectEvent, waiter, sent, emitted, notified, resolveCalls,
      rejectCalls, keyFetch, hook, hookRuns, verifyArms>>

TimeoutMsg == Msg(CANCEL, "m.timeout", <<"Timed out">>)

\* C8 (as claimed): the timer firing on a transaction that is not terminal
\* cancels it, sends a timeout-coded cancellation and rejects the verify()
\* promise with the timeout cause; on a terminal one it has no effect.
C8_TimeoutCancels ==
    [][ last'.op = "timer" =>
          IF ~Terminal
          THEN /\ cancelled'
               /\ sent' = Append(sent, TimeoutMsg)
               /\ promiseState' = "rejected"
               /\ promiseValue' = timeoutException
          ELSE UNCHANGED allButTimer ]_vars

\* C8 (amended): as claimed, but the timeout-coded cancellation is sent
\* when both the user id and the device id of the other party are set;
\* without one of them nothing is sent.
C8_TimeoutCancelsIfIdsKnown ==
    [][ last'.op = "timer" =>
          IF ~Terminal
          THEN /\ cancelled'
               /\ done'
               /\ timer' = "null"
               /\ sent' = IF IdsKnown THEN Append(sent, TimeoutMsg) ELSE sent
               /\ promiseState' = "rejected"
               /\ promiseValue' = timeoutException
          ELSE UNCHANGED allButTimer ]_vars

\* the timer fired and the other party was told
C8_Witness ==
    /\ last.op = "timer"
    /\ ~last.terminal
    /\ cancelled
    /\ sent = <<TimeoutMsg>>
    /\ promiseValue = timeoutException

\* cancel() was called before verify()
CancelledUnstarted == cancelled /\ ~resolveFn

\* C9: after a cancel() that came before verify() the transaction is
\* cancelled and its promise is rejected with the cause of that cancel();
\* every verify() returns that promise and starts nothing: the hook is
\* never run and the timer never armed.
C9_EarlyCancelRejectsVerify ==
    /\ [](CancelledUnstarted =>
            /\ promise # 0
            /\ promiseState = "rejected"
            /\ promiseValue.class # "none"
            /\ returned \subseteq {promise}
            /\ hook = "idle"
            /\ hookRuns = 0
            /\ verifyArms = 0
            /\ timer = "null")
    /\ [][ (last'.op = "cancel" /\ promise = 0) =>
             /\ CancelledUnstarted'
             /\ promiseValue' \in {CauseAfterSend(Cur, x) : x \in AppCauses} ]_vars
    /\ [][ CancelledUnstarted =>
             /\ CancelledUnstarted'
             /\ promise' = promise
             /\ promiseValue' = promiseValue ]_vars
    /\ [][ (last'.op = "verify" /\ CancelledUnstarted) =>
             /\ UNCHANGED objVars
             /\ returned' = {promise} ]_vars

\* verify() called after an early cancel() returned the rejected promise
C9_Witness ==
    /\ last.op = "verify"
    /\ last.terminal
    /\ CancelledUnstarted
    /\ promiseState = "rejected"
    /\ returned = {promise}

\* C10: once verify() has run the hook, and with an armed timer eventually
\* firing, the transaction becomes terminal with the verify() promise
\* settled, whatever the other party does.
C10_EventuallySettled == (hookRuns > 0) ~> (Terminal /\ Settled)

\* the hook was still suspended in _waitForEvent when the timer ended the
\* transaction
C10_Witness ==
    /\ last.op = "timer"
    /\ hook = "waiting"
    /\ done
    /\ promiseState = "rejected"

\* C11: switchStartEvent() when canSwitchStartEvent refuses leaves
\* startEvent, the waiter, the expectation, the timer and the terminal
\* flags (and everything else) as they were, waiter outstanding or not.
C11_SwitchDisabledNoOp ==
    [][ (last'.op = "switchStartEvent" /\ last'.arg = "cannot switch")
          => UNCHANGED objVars ]_vars

\* a refused switchStartEvent() while the hook waits for an event
C11_Witness ==
    /\ last.op = "switchStartEvent"
    /\ last.arg = "cannot switch"
    /\ waiter.state = "pending"
    /\ rejectEvent
    /\ startEvent = StartEvent0

\* the entries of `keys` that are of a stored device or of the stored
\* cross-signing identity
Known == {i \in 1..Len(keys) : Resolves(keys[i].id, crossSigningId)}

\* those of them verifier fails for
Refused == {i \in Known : ~keys[i].ok}

Elements(seq) == {seq[i] : i \in 1..Len(seq)}

\* the call of _verifyKeys is over
Finished == batch.result \in {"resolved", "No devices could be verified", "verifier failed"}

\* C12 as stated: a finished batch has failed with "No devices could be
\* verified", marking nothing, if and only if none of its keys was verified.
C12_NoDevicesIffNoneVerified ==
    Finished =>
        ((batch.result = "No devices could be verified" /\ batch.marked = <<>>)
            <=> batch.verifiedDevices = <<>>)

\* C12: _verifyKeys calls setDeviceVerified for exactly the devices of the
\* keys that are of a stored device or of the stored cross-signing identity
\* (verifier having succeeded for each), and only once the loop over the
\* keys is over; the other keys are skipped and do not fail the batch; when
\* no verifier fails, it fails with "No devices could be verified",
\* marking nothing, if and only if no key was verified; when a verifier
\* fails, the batch fails with the verifier's error, even if no key was
\* verified before it, and no device at all is marked.
C12_VerifyKeysMarksVerified ==
    /\ (Finished /\ Refused = {}) =>
          ((batch.result = "No devices could be verified" /\ batch.marked = <<>>)
              <=> batch.verifiedDevices = <<>>)
    /\ (Finished /\ Refused # {}) => batch.result = "verifier failed"
    /\ batch.result \in {"checking", "No devices could be verified", "verifier failed"}
          => batch.marked = <<>>
    /\ batch.result = "verifier failed" => batch.pos \in Refused
    /\ Refused # {} => batch.result \in {"checking", "verifier failed"}
    /\ batch.result = "No devices could be verified" =>
          (Known = {} /\ Refused = {})
    /\ (batch.result = "checking" /\ batch.pos > Len(keys) /\ Known = {})
          => batch.verifiedDevices = <<>>
    /\ batch.result = "resolved" =>
          /\ Refused = {}
          /\ Known # {}
          /\ Elements(batch.marked) = {deviceIdOf(keys[i].id) : i \in Known}
          /\ Len(batch.marked) = Cardinality(Known)

\* a batch with an unknown key and a known one has marked the known one
C12_Witness ==
    /\ batch.result = "resolved"
    /\ Known # {}
    /\ Known # 1..Len(keys)
    /\ batch.marked # <<>>

\* a batch none of whose keys is known has failed
C12_NoDevices ==
    /\ batch.result = "No devices could be verified"
    /\ Len(keys) > 0

\* C13: in every reachable state _expectedEvent is set if and only if
\* _resolveEvent and _rejectEvent are both set, and unset if and only if
\* both are unset.
C13_WaiterSlotConsistent ==
    /\ expectedEvent # U <=> (resolveEvent /\ rejectEvent)
    /\ expectedEvent = U <=> (~resolveEvent /\ ~rejectEvent)

\* C14: a _waitForEvent(type) call on a transaction that is done or
\* cancelled fails at once and changes nothing: no expectation is recorded
\* and no waiter is created.
C14_WaitOnTerminalFails ==
    [][ (last'.op = "waitForEvent" /\ last'.terminal)
          => (last'.failed /\ UNCHANGED objVars) ]_vars

\* C15: a waiter that is pending once the transaction is done or cancelled
\* (cancel() was called or the timer fired while it was outstanding) is
\* eventually settled: it does not stay pending forever.
C15_CancelledWaiterRejected ==
    (Terminal /\ waiter.state = "pending") ~> (waiter.state # "pending")

\* the call just made was the first verify()
FirstVerify == last'.op = "verify" /\ promise = 0

\* the call just made handed over an event of the expected type, other
\* than the acknowledgment, to a transaction that was not done
AcceptedEvent ==
    /\ last'.op = "handleEvent"
    /\ ~done
    /\ last'.arg = expectedEvent
    /\ expectedEvent # DONE

\* C16: whenever the transaction is done or cancelled the timer is not
\* armed; a timer that was not armed becomes armed only in the first
\* verify() or in a handleEvent() of an accepted event; after every done()
\* and every cancel(), the hook's included, the timer is not armed.
C16_TimerOnlyWhileLive ==
    /\ [](Terminal => timer # "armed")
    /\ [][ (timer' = "armed" /\ timer # "armed") => (FirstVerify \/ AcceptedEvent) ]_vars
    /\ [][ last'.op \in {"done", "cancel", "hookReturn", "hookThrow"}
             => timer' # "armed" ]_vars

\* a started transaction whose timer an accepted event had rearmed has
\* been cancelled: the timer is stopped
C16_Witness ==
    /\ last.op = "cancel"
    /\ ~last.terminal
    /\ Terminal
    /\ started
    /\ waiter.state = "resolved"
    /\ timer = "null"

\* the call just made was a switchStartEvent(StartEvent1) that
\* canSwitchStartEvent allowed
PermittedSwitch == last'.op = "switchStartEvent" /\ last'.arg = "can switch"

\* the waiter, pending until now, is rejected with the switch error that
\* carries the new event; nothing of the transaction's outcome changes
WaiterRestarted ==
    /\ waiter' = Waiter("rejected", NoEvent, SwitchStartEventError(StartEvent1))
    /\ ~rejectEvent'
    /\ UNCHANGED <<cancelled, done, promise, promiseState, promiseValue, timer,
                   sent, emitted, notified, resolveCalls, rejectCalls, startEvent>>

allButStartEvent ==
    <<userId, deviceId, hasHook, cancelled, done, started, promise,
      promiseState, promiseValue, resolveFn, rejectFn, timer, expectedEvent,
      resolveEvent, rejectEvent, waiter, sent, emitted, notified, resolveCalls,
      rejectCalls, keyFetch, hook, hookRuns, verifyArms>>

\* a waiter is pending exactly when _rejectEvent is set
WaiterLive == (waiter.state = "pending") <=> rejectEvent

C17_Replaced ==
    /\ last.op = "switchStartEvent"
    /\ startEvent = StartEvent1

\* C18: a done() call on a transaction that is done or cancelled changes
\* nothing (the request is not notified, nothing is settled, no key
\* request starts) and does not fail; on a transaction that is neither, it
\* notifies the request once and has resolved the verify() promise by the
\* time a key request, if any, is under way.
C18_DoneIdempotent ==
    [][ last'.op = "done" =>
          IF last'.terminal
          THEN UNCHANGED objVars /\ ~last'.failed
          ELSE /\ notified' = notified + 1
               /\ done'
               /\ promiseState' = "resolved"
               /\ ~last'.failed ]_vars

\* the call just made handed an event of the expected type to a
\* transaction that was not done
MatchedEvent ==
    /\ last'.op = "handleEvent"
    /\ ~done
    /\ last'.arg = expectedEvent

\* the one event of InboundEvents of a type
InboundOfType(type) == CHOOSE e \in InboundEvents : e.type = type

\* C19: handleEvent() of an expected m.key.verification.done changes
\* nothing: the expectation stays, the waiter stays pending, the timer is
\* not rearmed, the transaction does not end.  handleEvent() of any other
\* expected type clears the expectation, arms the timer and resolves the
\* waiter, if one is pending, with that event; it does not end the
\* transaction either.
C19_MatchedDoneIsNoOp ==
    [][ MatchedEvent =>
          IF expectedEvent = DONE
          THEN UNCHANGED objVars
          ELSE /\ expectedEvent' = U
               /\ ~rejectEvent'
               /\ timer' = "armed"
               /\ waiter' = IF waiter.state = "pending"
                            THEN Waiter("resolved", InboundOfType(last'.arg), NoCause)
                            ELSE waiter
               /\ UNCHANGED <<cancelled, done, promiseState, sent, emitted>> ]_vars

\* the expected acknowledgment has arrived: the hook still waits for it
C19_Witness ==
    /\ last.op = "handleEvent"
    /\ last.arg = DONE
    /\ expectedEvent = DONE
    /\ waiter.state = "pending"
    /\ hook = "waiting"
    /\ timer = "armed"
    /\ ~Terminal

\* another expected event has arrived: the hook has it
C19_Resolved ==
    /\ last.op = "handleEvent"
    /\ last.arg = KEY
    /\ waiter = Waiter("resolved", InboundOfType(KEY), NoCause)
    /\ expectedEvent = U

\* nothing is expected and verify() was never called
NoLiveFlow == expectedEvent = U /\ returned = {}

\* C20: handleEvent() of any event, a remote cancellation included, while
\* nothing is expected and verify() was never called changes nothing of the
\* transaction (nothing sent, no flag set, no promise made) and does not
\* fail; and the first verify() on a transaction that was not cancelled
\* starts the hook, arms the timer and returns a pending promise, whatever
\* events came before.
C20_ReplayedEventsIgnored ==
    /\ [][ (last'.op = "handleEvent" /\ NoLiveFlow)
             => (UNCHANGED objVars /\ ~last'.failed) ]_vars
    /\ [][ (last'.op = "verify" /\ returned = {} /\ ~cancelled /\ hasHook)
             => /\ hook' = "running"
                /\ hookRuns' = 1
                /\ timer' = "armed"
                /\ promiseState' = "pending"
                /\ returned' = {promise'} ]_vars

\* a remote cancellation has been handed to a transaction on which
\* verify() was never called
C20_Witness ==
    /\ last.op = "handleEvent"
    /\ last.arg = CANCEL
    /\ NoLiveFlow
    /\ ~Terminal
    /\ promise = 0
    /\ sent = <<>>

====
